---------------------------- MODULE Spec2Model ----------------------------
(***************************************************************************)
(* onchange: watch paths, debounce change notifications, resolve template  *)
(* variables, render a message and a command, and run the command.         *)
(*                                                                         *)
(* Strings (paths, templates, commands, program output) are sequences of   *)
(* tokens: "/" is the path separator, "." the dot, " " a blank, ":" the    *)
(* colon, "{" and "}" the template braces, "*" the glob star; every other  *)
(* token stands for a run of ordinary characters.  The empty string is     *)
(* <<>>.  Option<T> is a sequence of length 0 (None) or 1 (Some).          *)
(***************************************************************************)
EXTENDS Integers, Sequences, FiniteSets, TLC

None == <<>>
Some(v) == <<v>>
IsSome(o) == o # <<>>
Unwrap(o) == o[1]

\* HashMap::insert
Put(m, k, v) == [x \in (DOMAIN m) \cup {k} |-> IF x = k THEN v ELSE m[x]]
EmptyMap == [x \in {} |-> <<>>]

RECURSIVE Concat(_)
\* concatenation of a sequence of strings
Concat(ss) == IF ss = <<>> THEN <<>> ELSE Head(ss) \o Concat(Tail(ss))

RECURSIVE JoinWith(_, _)
\* [String]::join(sep)
JoinWith(ss, sep) ==
    IF ss = <<>> THEN <<>>
    ELSE IF Len(ss) = 1 THEN ss[1]
    ELSE ss[1] \o sep \o JoinWith(Tail(ss), sep)

\* index of the first / last occurrence of token c in s, 0 when absent
FirstIndex(s, c) ==
    IF \E i \in 1..Len(s) : s[i] = c
    THEN CHOOSE i \in 1..Len(s) : s[i] = c /\ \A j \in 1..(i - 1) : s[j] # c
    ELSE 0
LastIndex(s, c) ==
    IF \E i \in 1..Len(s) : s[i] = c
    THEN CHOOSE i \in 1..Len(s) : s[i] = c /\ \A j \in (i + 1)..Len(s) : s[j] # c
    ELSE 0

RECURSIVE SplitOn(_, _)
\* str::split(c): the pieces between occurrences of c (empty pieces kept)
SplitOn(s, c) ==
    LET i == FirstIndex(s, c)
    IN  IF i = 0 THEN <<s>>
        ELSE <<SubSeq(s, 1, i - 1)>> \o SplitOn(SubSeq(s, i + 1, Len(s)), c)

RECURSIVE TrimStart(_)
TrimStart(s) == IF s # <<>> /\ Head(s) = " " THEN TrimStart(Tail(s)) ELSE s
RECURSIVE TrimEnd(_)
TrimEnd(s) ==
    IF s # <<>> /\ s[Len(s)] = " " THEN TrimEnd(SubSeq(s, 1, Len(s) - 1)) ELSE s
\* str::trim
Trim(s) == TrimEnd(TrimStart(s))

\* str::split_once(":"): None, or Some(<<before, after>>) around the first colon
SplitOnce(s, c) ==
    LET i == FirstIndex(s, c)
    IN  IF i = 0 THEN None
        ELSE Some(<<SubSeq(s, 1, i - 1), SubSeq(s, i + 1, Len(s))>>)

(***************************************************************************)
(* std::path on absolute, normalised paths.                                *)
(***************************************************************************)
\* Path::components without the root: the non-empty pieces between "/"
Components(p) == SelectSeq(SplitOn(p, "/"), LAMBDA c : c # <<>>)

\* Path::file_name, unwrap_or_default: the last component, "" for the root
FileName(p) ==
    LET cs == Components(p) IN IF cs = <<>> THEN <<>> ELSE cs[Len(cs)]

\* the dot that separates stem and extension: the last dot of the file name,
\* unless the name has none or its only dot is the leading one
ExtDot(name) ==
    LET i == LastIndex(name, ".") IN IF i <= 1 THEN 0 ELSE i

\* Path::file_stem, unwrap_or_default
FileStem(p) ==
    LET n == FileName(p)
        i == ExtDot(n)
    IN  IF i = 0 THEN n ELSE SubSeq(n, 1, i - 1)

\* Path::extension, unwrap_or_default
Extension(p) ==
    LET n == FileName(p)
        i == ExtDot(n)
    IN  IF i = 0 THEN <<>> ELSE SubSeq(n, i + 1, Len(n))

\* an absolute path from its components
FromComponents(cs) == <<"/">> \o JoinWith(cs, <<"/">>)

\* Path::parent, unwrap_or(Path::new("/"))
Parent(p) ==
    LET cs == Components(p)
    IN  IF Len(cs) <= 1 THEN <<"/">> ELSE FromComponents(SubSeq(cs, 1, Len(cs) - 1))

RECURSIVE DiffComps(_, _, _)
\* the loop of pathdiff::diff_paths over the two component lists; acc is
\* the relative path built so far
DiffComps(a, b, acc) ==
    IF a = <<>> /\ b = <<>> THEN acc
    ELSE IF b = <<>> THEN acc \o a
    ELSE IF a = <<>> THEN DiffComps(a, Tail(b), Append(acc, <<"..">>))
    ELSE IF acc = <<>> /\ Head(a) = Head(b) THEN DiffComps(Tail(a), Tail(b), acc)
    ELSE acc \o [i \in 1..Len(b) |-> <<"..">>] \o a

\* pathdiff::diff_paths(path, base).unwrap() for two absolute paths
DiffPaths(p, base) == JoinWith(DiffComps(Components(p), Components(base), <<>>), <<"/">>)

(***************************************************************************)
(* new_string_template: placeholders are "{" key "}", matched left to      *)
(* right, each closed by the first "}" after its "{".                      *)
(***************************************************************************)
RECURSIVE RenderParts(_, _)
\* the pieces of the rendered string: the text between placeholders and,
\* for each placeholder, its value or (key missing) its own text
RenderParts(src, map) ==
    LET i == FirstIndex(src, "{")
        rest == SubSeq(src, i + 1, Len(src))
        j == FirstIndex(rest, "}")
        key == SubSeq(rest, 1, j - 1)
    IN  IF i = 0 \/ j = 0 THEN <<[missing |-> FALSE, s |-> src]>>
        ELSE <<[missing |-> FALSE, s |-> SubSeq(src, 1, i - 1)],
               IF key \in DOMAIN map
               THEN [missing |-> FALSE, s |-> map[key]]
               ELSE [missing |-> TRUE, s |-> <<"{">> \o key \o <<"}">>]>>
             \o RenderParts(SubSeq(rest, j + 1, Len(rest)), map)

\* Template::render_nofail_string: a missing key leaves its placeholder
RenderNofail(src, map) ==
    LET ps == RenderParts(src, map) IN Concat([i \in 1..Len(ps) |-> ps[i].s])

\* Template::render_string: None (Err) when a key is missing
RenderString(src, map) ==
    LET ps == RenderParts(src, map)
    IN  IF \E i \in 1..Len(ps) : ps[i].missing THEN None
        ELSE Some(Concat([i \in 1..Len(ps) |-> ps[i].s]))

(***************************************************************************)
(* glob::Pattern::matches_path with the default options: "*" matches any   *)
(* run of characters, path separators included.                            *)
(***************************************************************************)
RECURSIVE GlobMatches(_, _)
GlobMatches(pat, s) ==
    IF pat = <<>> THEN s = <<>>
    ELSE IF Head(pat) = "*"
         THEN \E k \in 0..Len(s) : GlobMatches(Tail(pat), SubSeq(s, k + 1, Len(s)))
         ELSE s # <<>> /\ Head(s) = Head(pat) /\ GlobMatches(Tail(pat), Tail(s))


(***************************************************************************)
(* The inputs: watched files, configurations, outcomes of the auxiliary    *)
(* variables-command.                                                      *)
(***************************************************************************)
\* env::current_dir()
cwd == <<"/", "w">>

PathTs == <<"/", "w", "/", "x", ".", "ts">>
PathTmp == <<"/", "w", "/", "foo", ".", "tmp">>
PathTxt == <<"/", "w", "/", "sub", "/", "foo", ".", "txt">>
Paths == {PathTs, PathTmp, PathTxt}

\* a configuration file: rule-name -> {extensions, command, extra_variables}
RuleWeb == Put(Put(EmptyMap, <<"extensions">>, <<"js", " ", "ts">>),
               <<"command">>, <<"echo", " ", "{", "name", "}">>)
RuleTmp == Put(Put(EmptyMap, <<"extensions">>, <<"tmp">>),
               <<"extra_variables">>, <<"meta", " ", "{", "path", "}">>)
ConfRules == Put(Put(EmptyMap, <<"web">>, RuleWeb), <<"tmp">>, RuleTmp)

\* what a spawned variables-command can do: fail to spawn, write bytes that
\* are not UTF-8, or write lines
AuxOutcomes ==
    { [kind |-> "spawn_fail", lines |-> <<>>],
      [kind |-> "not_utf8", lines |-> <<>>],
      [kind |-> "ok", lines |-> <<>>],
      [kind |-> "ok", lines |-> << <<"color", ":", "red">>,
                                   <<"no colon here">>,
                                   <<" ", "name", " ", ":", "zz", ":", "y">>,
                                   <<"color", ":", " ", "blue">>,
                                   <<"event", ":", "mine">> >>] }

(***************************************************************************)
(* src/main.rs                                                             *)
(***************************************************************************)
\* the built-in keys of template_vars
BuiltinVars(path, pwd) ==
    LET m1 == Put(EmptyMap, <<"name">>, FileStem(path))
        m2 == Put(m1, <<"ext">>, Extension(path))
        m3 == Put(m2, <<"name", ".", "ext">>, FileName(path))
        m4 == Put(m3, <<"pwd">>, pwd)
        m5 == Put(m4, <<"path">>, path)
        m6 == Put(m5, <<"rpath">>, DiffPaths(path, pwd))
        m7 == Put(m6, <<"dir">>, Parent(path))
        m8 == Put(m7, <<"rdir">>, DiffPaths(Parent(path), pwd))
    IN  Put(m8, <<"rname">>, m8[<<"rdir">>] \o <<"/">> \o m8[<<"name", ".", "ext">>])

\* the variables-command template_vars chooses: the one from the command
\* line, else the one configured for the extension
ChooseVarCmd(var_cmd, conf_map, map) ==
    IF IsSome(var_cmd) THEN var_cmd
    ELSE IF map[<<"ext">>] \in DOMAIN conf_map
         THEN conf_map[map[<<"ext">>]][2]
         ELSE None

RECURSIVE InsertLinesKeepFirst(_, _)
\* (mutant) a key that is already in the map keeps its value
InsertLinesKeepFirst(map, lines) ==
    IF lines = <<>> THEN map
    ELSE LET kv == SplitOnce(Head(lines), ":")
         IN  InsertLinesKeepFirst(IF IsSome(kv) /\ Trim(Unwrap(kv)[1]) \notin DOMAIN map
                                  THEN Put(map, Trim(Unwrap(kv)[1]), Trim(Unwrap(kv)[2]))
                                  ELSE map,
                                  Tail(lines))

RECURSIVE InsertLines(_, _)
\* the for_each over the lines of the command's output
InsertLines(map, lines) ==
    IF lines = <<>> THEN map
    ELSE LET kv == SplitOnce(Head(lines), ":")
         IN  InsertLines(IF IsSome(kv)
                         THEN Put(map, Trim(Unwrap(kv)[1]), Trim(Unwrap(kv)[2]))
                         ELSE map,
                         Tail(lines))

\* template_vars from the point where the variables-command template is
\* chosen: cmd is its rendering (None: render_string returned Err), aux what
\* the command does when spawned.  panic: an unwrap failed; spawned: the
\* command a shell was started with, if one was; read: the lines read from it
RunVarCmd(map, cmd, aux) ==
    IF ~IsSome(cmd) THEN [panic |-> TRUE, spawned |-> None, read |-> <<>>, map |-> map]
    ELSE IF aux.kind = "spawn_fail"
         THEN [panic |-> TRUE, spawned |-> None, read |-> <<>>, map |-> map]
    ELSE IF aux.kind = "not_utf8"
         THEN [panic |-> TRUE, spawned |-> cmd, read |-> <<>>, map |-> map]
    ELSE [panic |-> FALSE, spawned |-> cmd, read |-> aux.lines,
          map |-> InsertLines(map, aux.lines)]

\* template_vars once the built-in keys are in the map
ExtendVars(map, cmd_t, aux) ==
    IF ~IsSome(cmd_t) THEN [panic |-> FALSE, spawned |-> None, read |-> <<>>, map |-> map]
    ELSE RunVarCmd(map, RenderString(Unwrap(cmd_t), map), aux)

\* the built-in keys, then the variables-command
VarsFrom(map, var_cmd, conf_map, aux) ==
    ExtendVars(map, ChooseVarCmd(var_cmd, conf_map, map), aux)

\* template_vars, given what the variables-command does when spawned
template_vars(path, pwd, var_cmd, conf_map, aux) ==
    VarsFrom(BuiltinVars(path, pwd), var_cmd, conf_map, aux)

RECURSIVE InsertExts(_, _, _)
InsertExts(extmap, exts, v) ==
    IF exts = <<>> THEN extmap
    ELSE InsertExts(Put(extmap, Head(exts), v), Tail(exts), v)

\* HashMap::get(key).map(Template::new)
GetOpt(m, k) == IF k \in DOMAIN m THEN Some(m[k]) ELSE None

RECURSIVE ext_map_from_config(_, _)
\* ext_map_from_config, the rules visited in the order `order` (a HashMap
\* is iterated in no fixed order)
ext_map_from_config(conf, order) ==
    IF order = <<>> THEN EmptyMap
    ELSE LET k == order[Len(order)]
             v == conf[k]
         IN  InsertExts(ext_map_from_config(conf, SubSeq(order, 1, Len(order) - 1)),
                        SplitOn(v[<<"extensions">>], " "),
                        <<GetOpt(v, <<"command">>), GetOpt(v, <<"extra_variables">>)>>)

\* the orders a map's keys can be visited in
Orders(m) ==
    { o \in [1..Cardinality(DOMAIN m) -> DOMAIN m] :
        \A i, j \in DOMAIN o : i # j => o[i] # o[j] }

\* (mutant) the rule of the extension is looked up before the command of
\* the command line
render_command_rule_first(cmd, conf_map, map) ==
    IF map[<<"ext">>] \in DOMAIN conf_map /\ IsSome(conf_map[map[<<"ext">>]][1])
    THEN RenderNofail(Unwrap(conf_map[map[<<"ext">>]][1]), map)
    ELSE IF IsSome(cmd) THEN RenderNofail(Unwrap(cmd), map)
    ELSE <<>>

\* render_command
render_command(cmd, conf_map, map) ==
    IF IsSome(cmd) THEN RenderNofail(Unwrap(cmd), map)
    ELSE IF map[<<"ext">>] \in DOMAIN conf_map /\ IsSome(conf_map[map[<<"ext">>]][1])
         THEN RenderNofail(Unwrap(conf_map[map[<<"ext">>]][1]), map)
         ELSE <<>>

\* what on_change does with a non-empty command once the change is printed
RunCommand(a, l1, cmd) ==
    IF a.render_only THEN [lines |-> Append(l1, [kind |-> "Run", text |-> cmd]), act |-> "none"]
    ELSE IF a.async THEN [lines |-> Append(l1, [kind |-> "Run", text |-> cmd]), act |-> "async"]
    ELSE [lines |-> Append(l1, [kind |-> "Run", text |-> cmd]), act |-> "sync"]

\* the "Changed" line of on_change
ChangedLine(cng) ==
    IF IsSome(cng) THEN <<[kind |-> "Changed", text |-> Unwrap(cng)]>> ELSE <<>>

\* (mutant) no ignore filter
on_change_no_ignore(a, path, cmd, cng) ==
    IF cmd = <<>> THEN [lines |-> ChangedLine(cng), act |-> "none"]
    ELSE RunCommand(a, ChangedLine(cng), cmd)

\* (mutant) render_only is not looked at
on_change_runs_always(a, path, cmd, cng) ==
    IF \E i \in 1..Len(a.ignore) : GlobMatches(a.ignore[i], path)
    THEN [lines |-> <<>>, act |-> "none"]
    ELSE IF cmd = <<>> THEN [lines |-> ChangedLine(cng), act |-> "none"]
    ELSE RunCommand([a EXCEPT !.render_only = FALSE], ChangedLine(cng), cmd)

\* (mutant) an empty command is run like any other
on_change_runs_empty(a, path, cmd, cng) ==
    IF \E i \in 1..Len(a.ignore) : GlobMatches(a.ignore[i], path)
    THEN [lines |-> <<>>, act |-> "none"]
    ELSE RunCommand(a, ChangedLine(cng), cmd)

\* (mutant) the async and the sync branch are exchanged
on_change_swapped(a, path, cmd, cng) ==
    IF \E i \in 1..Len(a.ignore) : GlobMatches(a.ignore[i], path)
    THEN [lines |-> <<>>, act |-> "none"]
    ELSE IF cmd = <<>> THEN [lines |-> ChangedLine(cng), act |-> "none"]
    ELSE RunCommand([a EXCEPT !.async = ~a.async], ChangedLine(cng), cmd)

\* on_change up to the point where the command is handed over: the lines it
\* prints and what it does with the command ("none", "async", "sync")
on_change(a, path, cmd, cng) ==
    IF \E i \in 1..Len(a.ignore) : GlobMatches(a.ignore[i], path)
    THEN [lines |-> <<>>, act |-> "none"]
    ELSE IF cmd = <<>> THEN [lines |-> ChangedLine(cng), act |-> "none"]
    ELSE RunCommand(a, ChangedLine(cng), cmd)

\* main: `conf_map` is HashMap::new() without reading any configuration
BypassConfig(a) == Len(a.command) > 0 /\ IsSome(a.variables_command)
\* main: cng_templ
CngTempl(a) == IF Len(a.template) > 0 THEN Some(a.template) ELSE None
\* main: cmd_templ
CmdTempl(a) == IF Len(a.command) > 0 THEN Some(JoinWith(a.command, <<" ">>)) ELSE None

\* format!("{:?}", event)
DebugEvent(ev) ==
    <<"DebouncedEvent { path: \"">> \o ev.path \o <<"\", kind: ", ev.kind, " }">>


(***************************************************************************)
(* The program state.                                                      *)
(***************************************************************************)
VARIABLES
    args,         \* Cli::parse()
    conf_result,  \* get_config(..).and_then(try_deserialize): None is Err
    conf_map,     \* main: conf_map
    mode,         \* "trial" or "watch", once main has chosen
    pc,           \* the main thread: "start", "idle" (at the head of its
                  \* loop), "sleep" (thread::sleep(delay)), "run" (waiting
                  \* in join() for the shell), "done" (main returned),
                  \* "panicked"
    todo,         \* trial run: the watch-list entries not yet visited
    watched,      \* the paths registered with the watcher
    rx,           \* the channel from the debouncer to main
    cur,          \* the events of the received batch not yet visited
    sync,         \* the command main is sleeping for or running
    threads,      \* the threads spawned by on_change that are still alive
    now,          \* the clock
    d,            \* the debouncer: path -> None or Some([insert, update])
    lastTick,     \* when the debouncer thread last woke up
    notes,        \* (history) per path, the raw notifications so far
    nbatches,     \* (history) the batches sent with their timing left open
    hist,         \* (history) the events handled so far, one record each
    out,          \* standard output, each line with the event it is for
    procs         \* (history) the shell processes started so far, those of
                  \* the variables-command with the lines read from them

vars == <<args, conf_result, conf_map, mode, pc, todo, watched, rx, cur, sync,
          threads, now, d, lastTick, notes, nbatches, hist, out, procs>>

\* the process is running: main has neither returned nor panicked
Alive == pc \notin {"done", "panicked"}

\* per path: n, the raw notifications; last, the time of the latest (-1: none);
\* bursts, the notifications that did not follow one for the same path by
\* less than the quiet window; created, the debouncer entries created;
\* acc, the time of the latest notification that had no predecessor or came
\* a quiet window or more after the notification acc was set by (-1: none)
NoNotes == [p \in Paths |-> [n |-> 0, last |-> -1, bursts |-> 0, created |-> 0,
                             acc |-> -1]]

InitWith(a, c) ==
    /\ args = a
    /\ conf_result = c
    /\ conf_map = EmptyMap
    /\ mode = "none"
    /\ pc = "start"
    /\ todo = <<>>
    /\ watched = {}
    /\ rx = <<>>
    /\ cur = <<>>
    /\ sync = None
    /\ threads = {}
    /\ now = 0
    /\ d = [p \in Paths |-> None]
    /\ lastTick = 0
    /\ notes = NoNotes
    /\ nbatches = 0
    /\ hist = <<>>
    /\ out = <<>>
    /\ procs = <<>>

\* main, from Cli::parse() to the head of the trial or the watch loop
Startup ==
    /\ pc = "start"
    /\ UNCHANGED <<args, conf_result, rx, cur, sync, threads, now, d, lastTick,
                   notes, nbatches, hist, procs>>
    /\ IF ~BypassConfig(args) /\ ~IsSome(conf_result)
       THEN /\ out' = Append(out, [ev |-> 0, kind |-> "Error", text |-> <<"config">>])
            /\ pc' = "done"
            /\ UNCHANGED <<conf_map, mode, todo, watched>>
       ELSE /\ \E order \in (IF BypassConfig(args) THEN {<<>>}
                             ELSE Orders(Unwrap(conf_result))) :
                 conf_map' = IF BypassConfig(args) THEN EmptyMap
                             ELSE ext_map_from_config(Unwrap(conf_result), order)
            /\ IF args.trial_run
               THEN /\ mode' = "trial"
                    /\ todo' = args.watch
                    /\ pc' = "idle"
                    /\ UNCHANGED <<watched, out>>
               ELSE /\ mode' = "watch"
                    /\ todo' = <<>>
                    /\ \E k \in 0..Len(args.watch) :
                         /\ watched' = {args.watch[i] : i \in 1..k}
                         /\ IF k < Len(args.watch)
                            THEN /\ out' = Append(out, [ev |-> 0, kind |-> "Error",
                                                        text |-> <<"watch">>])
                                 /\ pc' = "done"
                            ELSE /\ out' = out
                                 /\ pc' = "idle"

\* the state after on_change has returned oc for event number id
Dispatch(id, cmd, oc) ==
    /\ out' = out \o [i \in 1..Len(oc.lines) |->
                        [ev |-> id, kind |-> oc.lines[i].kind, text |-> oc.lines[i].text]]
    /\ threads' = IF oc.act = "async"
                  THEN threads \cup {[ev |-> id, cmd |-> cmd, st |-> "sleep", t0 |-> now]}
                  ELSE threads
    /\ sync' = IF oc.act = "sync" THEN Some([ev |-> id, cmd |-> cmd, t0 |-> now]) ELSE sync
    /\ pc' = IF oc.act = "sync" THEN "sleep" ELSE pc

\* render_command and the change message are rendered; on_change is called
Rendered(path, watch, map, cmd, cng) ==
    /\ hist' = Append(hist, [path |-> path, watch |-> watch, panic |-> FALSE, map |-> map,
                             cmd |-> cmd, cng |-> cng])
    /\ Dispatch(Len(hist) + 1, cmd, on_change(args, path, cmd, cng))

\* the variable map is complete: render the command and the message
WithVars(path, watch, map) ==
    Rendered(path, watch, map, render_command(CmdTempl(args), conf_map, map),
             IF IsSome(CngTempl(args))
             THEN Some(RenderNofail(Unwrap(CngTempl(args)), map)) ELSE None)

\* template_vars has returned tv, or panicked
Resolved(path, ev, tv) ==
    /\ procs' = procs \o (IF IsSome(tv.spawned)
                          THEN <<[ev |-> Len(hist) + 1, kind |-> "aux",
                                  cmd |-> Unwrap(tv.spawned), read |-> tv.read]>>
                          ELSE <<>>)
    /\ IF tv.panic
       THEN /\ hist' = Append(hist, [path |-> path, watch |-> IsSome(ev), panic |-> TRUE,
                                     map |-> tv.map, cmd |-> <<>>, cng |-> None])
            /\ pc' = "panicked"
            /\ UNCHANGED <<out, threads, sync>>
       ELSE WithVars(path, IsSome(ev),
                     IF IsSome(ev) THEN Put(tv.map, <<"event">>, DebugEvent(Unwrap(ev)))
                     ELSE tv.map)

\* one pass of template_vars, render_command and on_change for `path`;
\* ev is Some(event) in the watch loop and None in the trial run
Handle(path, ev) ==
    \E aux \in AuxOutcomes :
        Resolved(path, ev, template_vars(path, cwd, args.variables_command, conf_map, aux))

\* the trial run: the next watch-list entry, or the return after the last
TrialStep ==
    /\ pc = "idle" /\ mode = "trial"
    /\ UNCHANGED <<args, conf_result, conf_map, mode, watched, rx, cur, now, d,
                   lastTick, notes, nbatches>>
    /\ IF todo = <<>>
       THEN /\ pc' = "done"
            /\ UNCHANGED <<todo, hist, out, procs, threads, sync>>
       ELSE /\ todo' = Tail(todo)
            /\ Handle(Head(todo), None)

\* (mutant) an Err batch is printed and ends the loop
RecvErrEndsLoop ==
    /\ pc = "idle" /\ mode = "watch" /\ cur = <<>> /\ rx # <<>>
    /\ rx' = Tail(rx)
    /\ IF Head(rx).ok
       THEN cur' = Head(rx).events /\ out' = out /\ pc' = pc
       ELSE /\ cur' = cur
            /\ pc' = "done"
            /\ out' = out \o [i \in 1..Len(Head(rx).errors) |->
                                [ev |-> 0, kind |-> "Error", text |-> Head(rx).errors[i]]]
    /\ UNCHANGED <<args, conf_result, conf_map, mode, todo, watched, sync,
                   threads, now, d, lastTick, notes, nbatches, hist, procs>>

\* `for res in rx`: take the next batch; an Err batch is printed
Recv ==
    /\ pc = "idle" /\ mode = "watch" /\ cur = <<>> /\ rx # <<>>
    /\ rx' = Tail(rx)
    /\ IF Head(rx).ok
       THEN cur' = Head(rx).events /\ out' = out
       ELSE /\ cur' = cur
            /\ out' = out \o [i \in 1..Len(Head(rx).errors) |->
                                [ev |-> 0, kind |-> "Error", text |-> Head(rx).errors[i]]]
    /\ UNCHANGED <<args, conf_result, conf_map, mode, pc, todo, watched, sync,
                   threads, now, d, lastTick, notes, nbatches, hist, procs>>

\* (mutant) the events of a batch are visited from the back
HandleEventFromBack ==
    /\ pc = "idle" /\ mode = "watch" /\ cur # <<>>
    /\ cur' = SubSeq(cur, 1, Len(cur) - 1)
    /\ UNCHANGED <<args, conf_result, conf_map, mode, todo, watched, rx, now, d,
                   lastTick, notes, nbatches>>
    /\ IF cur[Len(cur)].kind = "Any"
       THEN Handle(cur[Len(cur)].path, Some(cur[Len(cur)]))
       ELSE UNCHANGED <<pc, hist, out, procs, threads, sync>>

\* events.iter().for_each: the next event of the batch
HandleEvent ==
    /\ pc = "idle" /\ mode = "watch" /\ cur # <<>>
    /\ cur' = Tail(cur)
    /\ UNCHANGED <<args, conf_result, conf_map, mode, todo, watched, rx, now, d,
                   lastTick, notes, nbatches>>
    /\ IF Head(cur).kind = "Any"
       THEN Handle(Head(cur).path, Some(Head(cur)))
       ELSE UNCHANGED <<pc, hist, out, procs, threads, sync>>

\* (mutant) the sleep returns at once
SleepOverAtOnce(t0, del, t) == t >= t0

\* thread::sleep(del), entered at time t0, has returned by time t
SleepOver(t0, del, t) == t >= t0 + del

\* on_change, sync: the sleep is over and Exec::shell(cmd).join() starts the
\* shell, or fails to and the unwrap panics
SyncInvoke ==
    /\ pc = "sleep"
    /\ SleepOver(Unwrap(sync).t0, args.delay, now)
    /\ \E started \in BOOLEAN :
         IF started
         THEN /\ pc' = "run"
              /\ procs' = Append(procs, [ev |-> Unwrap(sync).ev, kind |-> "cmd",
                                         cmd |-> Unwrap(sync).cmd])
              /\ sync' = sync
         ELSE /\ pc' = "panicked"
              /\ UNCHANGED <<procs, sync>>
    /\ UNCHANGED <<args, conf_result, conf_map, mode, todo, watched, rx, cur,
                   threads, now, d, lastTick, notes, nbatches, hist, out>>

\* on_change, sync: the shell has exited (its status is not looked at)
SyncComplete ==
    /\ pc = "run"
    /\ pc' = "idle"
    /\ sync' = None
    /\ UNCHANGED <<args, conf_result, conf_map, mode, todo, watched, rx, cur,
                   threads, now, d, lastTick, notes, nbatches, hist, out, procs>>

\* on_change, async: the thread's sleep is over and it starts the shell, or
\* fails to and the thread panics
ThreadInvoke ==
    /\ Alive
    /\ \E t \in threads :
         /\ t.st = "sleep"
         /\ SleepOver(t.t0, args.delay, now)
         /\ \E started \in BOOLEAN :
              IF started
              THEN /\ threads' = (threads \ {t}) \cup {[t EXCEPT !.st = "run"]}
                   /\ procs' = Append(procs, [ev |-> t.ev, kind |-> "cmd", cmd |-> t.cmd])
              ELSE /\ threads' = threads \ {t}
                   /\ procs' = procs
    /\ UNCHANGED <<args, conf_result, conf_map, mode, pc, todo, watched, rx, cur,
                   sync, now, d, lastTick, notes, nbatches, hist, out>>

\* on_change, async: the thread's shell has exited and the thread ends
ThreadComplete ==
    /\ Alive
    /\ \E t \in threads :
         /\ t.st = "run"
         /\ threads' = threads \ {t}
    /\ UNCHANGED <<args, conf_result, conf_map, mode, pc, todo, watched, rx, cur,
                   sync, now, d, lastTick, notes, nbatches, hist, out, procs>>


(***************************************************************************)
(* notify_debouncer_mini, as main uses it: new_debouncer(duration, None,   *)
(* tx) starts a thread that wakes up every duration/4, and sends on tx the *)
(* events that are due and, separately, the errors of the watcher.         *)
(***************************************************************************)
\* the quiet window, args.duration (in clock units), and the tick rate the
\* debouncer derives from it
Duration == 4
TickRate == Duration \div 4

\* (mutant) one timestamp for the whole map: a notification for p also
\* refreshes the entries of the other paths
AddEventShared(dd, p, t) ==
    [q \in DOMAIN dd |->
        IF q = p
        THEN (IF IsSome(dd[p]) THEN Some([insert |-> Unwrap(dd[p]).insert, update |-> t])
              ELSE Some([insert |-> t, update |-> t]))
        ELSE IF IsSome(dd[q]) THEN Some([insert |-> Unwrap(dd[q]).insert, update |-> t])
        ELSE dd[q]]

\* (mutant) a notification for a path that has an entry is dropped: the
\* entry keeps the time of its first notification
AddEventKeepFirst(dd, p, t) ==
    IF IsSome(dd[p]) THEN dd ELSE [dd EXCEPT ![p] = Some([insert |-> t, update |-> t])]

\* the watcher's callback: a raw notification for path p at time t
AddEvent(dd, p, t) ==
    IF IsSome(dd[p])
    THEN [dd EXCEPT ![p] = Some([insert |-> Unwrap(dd[p]).insert, update |-> t])]
    ELSE [dd EXCEPT ![p] = Some([insert |-> t, update |-> t])]

\* (mutant) the timeout is measured from the entry's first notification
KindAtFromInsert(e, t, timeout) ==
    IF t - e.insert >= timeout THEN "Any" ELSE "none"

\* what the debouncer's tick at time t makes of an entry: "Any" when the
\* path has been quiet for the timeout, "AnyContinuous" when it has not but
\* the entry is older than the timeout, "none" otherwise
KindAt(e, t, timeout) ==
    IF t - e.update >= timeout THEN "Any"
    ELSE IF t - e.insert >= timeout THEN "AnyContinuous"
    ELSE "none"

\* the events of a tick at time t
DebouncedEvents(dd, t, timeout) ==
    { [path |-> p, kind |-> KindAt(Unwrap(dd[p]), t, timeout)] :
        p \in { q \in DOMAIN dd : IsSome(dd[q]) /\ KindAt(Unwrap(dd[q]), t, timeout) # "none" } }

\* (mutant) a tick keeps every entry
DebouncedDataKeep(dd, t, timeout) == dd

\* the entries a tick at time t keeps: all but those reported as "Any"
DebouncedData(dd, t, timeout) ==
    [p \in DOMAIN dd |->
        IF IsSome(dd[p]) /\ KindAt(Unwrap(dd[p]), t, timeout) = "Any" THEN None ELSE dd[p]]

\* the sequences that list the elements of a set once each
SeqsOf(S) ==
    { o \in [1..Cardinality(S) -> S] : \A i, j \in DOMAIN o : i # j => o[i] # o[j] }

Ok(events) == [ok |-> TRUE, events |-> events, errors |-> <<>>]
Err(errors) == [ok |-> FALSE, events |-> <<>>, errors |-> errors]

MaxTime == 6
MaxNotes == 3
MaxChan == 2
MaxBatches == 2

RECURSIVE SumOver(_, _)
SumOver(f, S) ==
    IF S = {} THEN 0 ELSE LET x == CHOOSE x \in S : TRUE IN f[x] + SumOver(f, S \ {x})
\* the raw notifications so far
NotesTotal == SumOver([p \in Paths |-> notes[p].n], Paths)

\* a notification for p now: it has no accepted predecessor, or the latest
\* accepted one is a quiet window or more ago
LeadingEdgeAccepts(p) == notes[p].acc < 0 \/ now - notes[p].acc >= args.duration

\* the watcher reports a change of the watched path p
Notify(p) ==
    /\ Alive /\ mode = "watch" /\ pc # "start"
    /\ p \in watched
    /\ NotesTotal < MaxNotes
    /\ d' = AddEvent(d, p, now)
    /\ notes' = [notes EXCEPT ![p] =
                   [@ EXCEPT !.n = @ + 1,
                             !.last = now,
                             !.bursts = IF notes[p].last < 0 \/ now - notes[p].last >= args.duration
                                        THEN @ + 1 ELSE @,
                             !.created = IF IsSome(d[p]) THEN @ ELSE @ + 1,
                             !.acc = IF LeadingEdgeAccepts(p) THEN now ELSE @]]
    /\ UNCHANGED <<args, conf_result, conf_map, mode, pc, todo, watched, rx, cur,
                   sync, threads, now, lastTick, nbatches, hist, out, procs>>

\* time passes
Advance ==
    /\ Alive
    /\ now < MaxTime
    /\ now' = now + 1
    /\ UNCHANGED <<args, conf_result, conf_map, mode, pc, todo, watched, rx, cur,
                   sync, threads, d, lastTick, notes, nbatches, hist, out, procs>>

\* the debouncer thread wakes up, collects the due events and sends them
Tick ==
    /\ Alive /\ mode = "watch" /\ pc # "start"
    /\ now >= lastTick + TickRate
    /\ Len(rx) < MaxChan
    /\ lastTick' = now
    /\ LET evs == DebouncedEvents(d, now, args.duration)
       IN  /\ d' = DebouncedData(d, now, args.duration)
           /\ IF evs = {} THEN rx' = rx
              ELSE \E batch \in SeqsOf(evs) : rx' = Append(rx, Ok(batch))
    /\ UNCHANGED <<args, conf_result, conf_map, mode, pc, todo, watched, cur, sync,
                   threads, now, notes, nbatches, hist, out, procs>>

\* the batches the debouncer is seen to send when its timing is left open
Batches ==
    { Ok(<<[path |-> p, kind |-> "Any"]>>) : p \in Paths }
    \cup { Ok(<<[path |-> PathTs, kind |-> "AnyContinuous"]>>),
           Ok(<<[path |-> PathTmp, kind |-> "Any"], [path |-> PathTs, kind |-> "Any"]>>),
           Err(<< <<"watch error">> >>) }

\* the debouncer thread sends a batch (its timing left open)
Deliver ==
    /\ Alive /\ mode = "watch" /\ pc # "start"
    /\ Len(rx) < MaxChan
    /\ nbatches < MaxBatches
    /\ nbatches' = nbatches + 1
    /\ \E b \in Batches : rx' = Append(rx, b)
    /\ UNCHANGED <<args, conf_result, conf_map, mode, pc, todo, watched, cur, sync,
                   threads, now, d, lastTick, notes, hist, out, procs>>

(***************************************************************************)
(* Specifications.                                                         *)
(***************************************************************************)
VarCmdOk == <<"meta", " ", "{", "path", "}">>
VarCmdBad == <<"meta", " ", "{", "nokey", "}">>
CmdRun == << <<"run">>, <<"{", "path", "}">> >>
IgnoreDefault == << <<>> >>
IgnoreTmp == << <<"*", ".", "tmp">> >>
TemplateDefault == <<"{", "path", "}">>

\* the command lines and configurations of the dispatch pipeline
ArgSet ==
    [duration : {Duration}, delay : {0}, render_only : BOOLEAN, async : BOOLEAN,
     ignore : {IgnoreDefault, IgnoreTmp},
     variables_command : {None, Some(VarCmdOk), Some(VarCmdBad)},
     template : {TemplateDefault}, trial_run : BOOLEAN,
     watch : {<<PathTs, PathTmp, PathTxt>>},
     command : {<<>>, CmdRun}]

Init == \E a \in ArgSet, c \in {None, Some(ConfRules)} : InitWith(a, c)

Next ==
    \/ Startup
    \/ TrialStep
    \/ Deliver
    \/ Recv
    \/ HandleEvent
    \/ SyncInvoke
    \/ SyncComplete
    \/ ThreadInvoke
    \/ ThreadComplete

Spec == Init /\ [][Next]_vars


\* the command lines of the timed model: two watched files, a command given
\* on the command line, an empty configuration
ArgSetTimed ==
    [duration : {Duration}, delay : {1}, render_only : {FALSE}, async : BOOLEAN,
     ignore : {IgnoreDefault}, variables_command : {None},
     template : {TemplateDefault}, trial_run : {FALSE},
     watch : {<<PathTs, PathTmp>>}, command : {CmdRun}]

InitTimed == \E a \in ArgSetTimed : InitWith(a, Some(EmptyMap))

NextTimed ==
    \/ Startup
    \/ \E p \in Paths : Notify(p)
    \/ Advance
    \/ Tick
    \/ Recv
    \/ HandleEvent
    \/ SyncInvoke
    \/ SyncComplete
    \/ ThreadInvoke
    \/ ThreadComplete

\* the watch loop fed by the debouncer, with the clock
SpecTimed == InitTimed /\ [][NextTimed]_vars


(***************************************************************************)
(* What the claims are stated with.                                        *)
(***************************************************************************)
RECURSIVE CountAny(_, _)
\* the "Any" events for path p in a sequence of events
CountAny(events, p) ==
    IF events = <<>> THEN 0
    ELSE (IF Head(events).path = p /\ Head(events).kind = "Any" THEN 1 ELSE 0)
         + CountAny(Tail(events), p)

RECURSIVE CountAnyRx(_, _)
CountAnyRx(batches, p) ==
    IF batches = <<>> THEN 0
    ELSE CountAny(Head(batches).events, p) + CountAnyRx(Tail(batches), p)

\* the logical change events for p: the passes of the watch loop through
\* template_vars, render_command and on_change
Logical(p) == Cardinality({i \in 1..Len(hist) : hist[i].watch /\ hist[i].path = p})
\* the "Any" events for p sent by the debouncer and not yet handled
InFlight(p) == CountAnyRx(rx, p) + CountAny(cur, p)
\* the "Any" events the debouncer has sent for p so far
Emitted(p) == Logical(p) + InFlight(p)
Present(p) == IF IsSome(d[p]) THEN 1 ELSE 0
\* nothing for p is pending anywhere
Quiet(p) == ~IsSome(d[p]) /\ InFlight(p) = 0

Thm_C3 ==
    /\ [](\A p \in Paths : (notes[p].n > 0) => (Present(p) = 1 \/ Emitted(p) >= 1))
    /\ [][\A p, q \in Paths :
            (p # q /\ notes'[q].n # notes[q].n) =>
               (d'[p] = d[p] /\ Emitted(p)' = Emitted(p))]_vars
    /\ [][\A p \in Paths :
            (lastTick' # lastTick /\ IsSome(d[p])) =>
               (Emitted(p)' = Emitted(p) + 1 <=> now - notes[p].last >= args.duration)]_vars

Wit_C3 ==
    /\ notes[PathTs].n = 1 /\ notes[PathTmp].n = 1
    /\ notes[PathTs].last = notes[PathTmp].last
    /\ Logical(PathTs) = 1 /\ Logical(PathTmp) = 1


\* the lines of a kind printed for event number i
OutFor(i, kind) == {j \in 1..Len(out) : out[j].ev = i /\ out[j].kind = kind}
\* the shells started to run the command of event number i
CmdProcs(i) == {j \in 1..Len(procs) : procs[j].ev = i /\ procs[j].kind = "cmd"}
ThreadsFor(i) == {t \in threads : t.ev = i}
SyncFor(i) == IsSome(sync) /\ Unwrap(sync).ev = i
\* nothing is printed and nothing is run for event number i
Silent(i) ==
    /\ OutFor(i, "Changed") = {} /\ OutFor(i, "Run") = {}
    /\ CmdProcs(i) = {} /\ ThreadsFor(i) = {} /\ ~SyncFor(i)
\* the path matches one of the ignore patterns of the command line
Ignored(path) == \E k \in 1..Len(args.ignore) : GlobMatches(args.ignore[k], path)
\* the events on_change was called for
Handled == {i \in 1..Len(hist) : ~hist[i].panic}

(***************************************************************************)
(* C4: for an event whose path matches an ignore pattern on_change prints  *)
(* no change message and no command and runs nothing; for an event whose   *)
(* path matches no pattern the message and the command are printed as      *)
(* rendered.  With the pattern *.tmp, foo.tmp is suppressed and foo.txt    *)
(* and x.ts are not.                                                       *)
(***************************************************************************)
Thm_C4 ==
    \A i \in Handled :
      /\ IF Ignored(hist[i].path) THEN Silent(i)
         ELSE /\ IsSome(hist[i].cng) =>
                   (\E j \in OutFor(i, "Changed") : out[j].text = Unwrap(hist[i].cng))
              /\ (hist[i].cmd # <<>>) =>
                   (\E j \in OutFor(i, "Run") : out[j].text = hist[i].cmd)
      /\ (args.ignore = IgnoreTmp /\ hist[i].path = PathTmp) => Silent(i)
      /\ (args.ignore = IgnoreTmp /\ hist[i].path \in {PathTxt, PathTs}) =>
            OutFor(i, "Changed") # {}
      /\ (args.ignore = IgnoreDefault) => OutFor(i, "Changed") # {}

Wit_C4 ==
    \E i, j \in Handled :
      /\ Ignored(hist[i].path) /\ hist[i].cmd # <<>> /\ IsSome(hist[i].cng)
      /\ ~args.render_only /\ Silent(i)
      /\ ~Ignored(hist[j].path) /\ OutFor(j, "Changed") # {} /\ OutFor(j, "Run") # {}

(***************************************************************************)
(* C5 as stated: in render-only mode no process is ever spawned while an   *)
(* event is handled.                                                       *)
(***************************************************************************)
Orig_C5 == args.render_only => procs = <<>>

(***************************************************************************)
(* C5 as amended: in render-only mode the rendered command is never run,   *)
(* for every event and every configuration: no shell is started for it, no *)
(* thread is spawned and main does not wait; a non-empty command of an     *)
(* event that is not ignored is printed.  The only processes spawned are   *)
(* those of the variables-command.                                         *)
(***************************************************************************)
Thm_C5 ==
    args.render_only =>
      /\ \A j \in 1..Len(procs) : procs[j].kind = "aux"
      /\ threads = {} /\ sync = None /\ pc \notin {"sleep", "run"}
      /\ \A i \in Handled :
            (hist[i].cmd # <<>> /\ ~Ignored(hist[i].path)) =>
               (\E j \in OutFor(i, "Run") : out[j].text = hist[i].cmd)

Wit_C5 ==
    /\ args.render_only
    /\ \E i \in Handled : hist[i].cmd # <<>> /\ OutFor(i, "Run") # {}
    /\ \E j \in 1..Len(procs) : procs[j].kind = "aux"

(***************************************************************************)
(* C6: when the rendered command of an event is empty, no shell is started *)
(* and no thread is spawned for it, in sync and in async mode, no command  *)
(* is printed, and main is back at the head of its loop (or has finished   *)
(* the trial run): the event is no failure.                                *)
(***************************************************************************)
Thm_C6 ==
    \A i \in Handled :
      (hist[i].cmd = <<>>) =>
         /\ CmdProcs(i) = {} /\ ThreadsFor(i) = {} /\ ~SyncFor(i)
         /\ OutFor(i, "Run") = {}
         /\ (i = Len(hist)) => (pc \in {"idle", "done"})

Wit_C6 ==
    \E i, j \in Handled :
      /\ i < j /\ hist[i].cmd = <<>> /\ ~Ignored(hist[i].path)
      /\ ~args.render_only /\ OutFor(i, "Changed") # {}

(***************************************************************************)
(* C7: with async set main never sleeps for a command nor waits for one:   *)
(* the command of an event is handed to a new thread, which sleeps and     *)
(* starts the shell later, and main goes on (commands of successive events *)
(* may run at the same time).  With async unset no thread is spawned, and  *)
(* while main sleeps for a command or waits for its shell it handles no    *)
(* event, takes no batch and prints nothing.                               *)
(***************************************************************************)
Thm_C7 ==
    /\ [](args.async => (pc \notin {"sleep", "run"} /\ sync = None))
    /\ []((~args.async) => threads = {})
    /\ [][(Len(hist') > Len(hist)) => (pc = "idle" /\ sync = None)]_vars
    /\ [][(pc \in {"sleep", "run"}) =>
             (hist' = hist /\ cur' = cur /\ todo' = todo /\ out' = out /\ rx' \in {rx} \cup {Append(rx, b) : b \in Batches})]_vars
    /\ [][(args.async /\ Len(hist') > Len(hist)) =>
             LET i == Len(hist')
             IN  /\ pc' \in {"idle", "panicked"}
                 /\ \A j \in 1..Len(procs') : ~(procs'[j].ev = i /\ procs'[j].kind = "cmd")
                 /\ (hist'[i].cmd # <<>> /\ ~hist'[i].panic /\ ~Ignored(hist'[i].path)
                       /\ ~args.render_only) =>
                      (\E t \in threads' : t.ev = i /\ t.st = "sleep" /\ t.cmd = hist'[i].cmd)]_vars
    /\ [][(~args.async /\ Len(hist') > Len(hist)) =>
             LET i == Len(hist')
             IN  (hist'[i].cmd # <<>> /\ ~hist'[i].panic /\ ~Ignored(hist'[i].path)
                    /\ ~args.render_only) =>
                   (pc' = "sleep" /\ IsSome(sync') /\ Unwrap(sync').ev = i)]_vars

Wit_C7 ==
    /\ args.async
    /\ \E t1, t2 \in threads : t1.ev < t2.ev /\ t1.st = "run" /\ t2.st = "run"

(***************************************************************************)
(* C8 as stated: the main loop never terminates because of the failure of  *)
(* a single event.                                                         *)
(***************************************************************************)
Orig_C8 == (mode = "watch") => (pc # "panicked")

(***************************************************************************)
(* C9: the command of an event with variable map vars is the command of    *)
(* the command line rendered against vars when there is one; else the      *)
(* command-template of the rule for vars["ext"] rendered against vars when *)
(* the rule table has one; else the empty string.  With the rule           *)
(* {extensions: "js ts", command: "echo {name}"}, x.ts gives "echo x".     *)
(***************************************************************************)
RuleCommand(ext) ==
    IF ext \in DOMAIN conf_map THEN conf_map[ext][1] ELSE None

Thm_C9 ==
    \A i \in Handled :
      LET vmap == hist[i].map
          rule == RuleCommand(vmap[<<"ext">>])
      IN  /\ hist[i].cmd =
               IF args.command # <<>>
               THEN RenderNofail(JoinWith(args.command, <<" ">>), vmap)
               ELSE IF IsSome(rule) THEN RenderNofail(Unwrap(rule), vmap)
               ELSE <<>>
          /\ (args.command = <<>> /\ conf_result = Some(ConfRules)
                /\ vmap[<<"ext">>] = <<"ts">> /\ vmap[<<"name">>] = <<"x">>) =>
               hist[i].cmd = <<"echo", " ", "x">>
          /\ (args.command = CmdRun /\ vmap[<<"path">>] = PathTs) =>
               hist[i].cmd = <<"run", " ">> \o PathTs

Wit_C9 ==
    /\ \E i \in Handled : args.command = <<>> /\ hist[i].path = PathTs
                          /\ hist[i].cmd = <<"echo", " ", "x">>
    /\ \E i \in Handled : args.command = <<>> /\ hist[i].path = PathTxt /\ hist[i].cmd = <<>>

(***************************************************************************)
(* C10 as stated: a failure to load or parse the configuration ends the    *)
(* program at startup if and only if no command was given on the command   *)
(* line.                                                                   *)
(***************************************************************************)
ConfigAbort == \E j \in 1..Len(out) : out[j].kind = "Error" /\ out[j].text = <<"config">>

Orig_C10 ==
    (pc # "start" /\ ~IsSome(conf_result)) => (ConfigAbort <=> args.command = <<>>)

\* the commands that were dispatched and whose shell has not yet exited: main
\* sleeping for one or waiting for its shell, and the threads of on_change
Pending == (IF IsSome(sync) THEN {Unwrap(sync).ev} ELSE {}) \cup {t.ev : t \in threads}

(***************************************************************************)
(* C11 as stated: there is no cancellation.  The process never ends while  *)
(* a dispatched command is still waiting for its delay or running: when    *)
(* main has returned, in the watch loop or in the trial run, every command *)
(* that was dispatched has been invoked and has run to completion.         *)
(***************************************************************************)
Orig_C11 == (pc = "done") => (Pending = {})

\* the variables template_vars always inserts
BuiltinKeys ==
    { <<"name">>, <<"ext">>, <<"name", ".", "ext">>, <<"pwd">>, <<"path">>,
      <<"rpath">>, <<"dir">>, <<"rdir">>, <<"rname">> }

(***************************************************************************)
(* C12 as stated: every variable map handed to the renderer, for an event  *)
(* of the watch loop or for a watch-list entry of the trial run, has the   *)
(* keys name, ext, name.ext, pwd, path, rpath, dir, rdir, rname and event. *)
(***************************************************************************)
Orig_C12 ==
    \A i \in Handled : (BuiltinKeys \cup { <<"event">> }) \subseteq DOMAIN hist[i].map

\* an output line of the variables-command that contains a colon, its key
\* (the text before the first colon, trimmed) and its value (the text after
\* the first colon, trimmed)
HasColon(l) == \E c \in 1..Len(l) : l[c] = ":"
LineKey(l) == Trim(SubSeq(l, 1, FirstIndex(l, ":") - 1))
LineValue(l) == Trim(SubSeq(l, FirstIndex(l, ":") + 1, Len(l)))
\* the lines of `lines` that set key k
LinesFor(lines, k) == {n \in 1..Len(lines) : HasColon(lines[n]) /\ LineKey(lines[n]) = k}
\* the last of them
LastLineFor(lines, k) ==
    CHOOSE n \in LinesFor(lines, k) : \A n2 \in LinesFor(lines, k) : n2 <= n
\* the variables-commands that were read to the end for event number i
AuxRead(i) ==
    {j \in 1..Len(procs) : procs[j].ev = i /\ procs[j].kind = "aux" /\ i \in Handled}
\* key k of event i's map has the value of the last line of `lines` that
\* sets k, when there is one
AsEnriched(i, lines, k) ==
    (LinesFor(lines, k) # {}) => (hist[i].map[k] = LineValue(lines[LastLineFor(lines, k)]))
\* key k of event i's map, when no line of `lines` sets it, is a built-in key
\* with its built-in value
AsBuiltin(i, lines, k) ==
    (LinesFor(lines, k) = {}) =>
       (k \in BuiltinKeys /\ hist[i].map[k] = BuiltinVars(hist[i].path, cwd)[k])

(***************************************************************************)
(* C13 as stated: enrichment by the variables-command is last-write-wins.  *)
(* Every output line with a colon sets its key, and the value the          *)
(* renderers see for any key, built-in keys included, is the value of the  *)
(* last line that sets it.                                                 *)
(***************************************************************************)
Orig_C13 ==
    \A i \in Handled : \A j \in AuxRead(i) :
      /\ \A n \in 1..Len(procs[j].read) :
            HasColon(procs[j].read[n]) => LineKey(procs[j].read[n]) \in DOMAIN hist[i].map
      /\ \A k \in DOMAIN hist[i].map : AsEnriched(i, procs[j].read, k)

(***************************************************************************)
(* C13 as amended: every output line of the variables-command with a colon *)
(* is split on the first colon, both sides are trimmed, and the key is     *)
(* inserted or overwritten in line order; lines without a colon are        *)
(* ignored.  The value the renderers see for a key other than event, a     *)
(* built-in key that the command redefines included, is the value of the   *)
(* last line that sets it (`color: blue` gives color = blue), and the      *)
(* built-in value when no line sets it.  In the watch loop the key event   *)
(* is set by main after the command's output was read: it always holds the *)
(* description of the event, whatever the command wrote; in the trial run  *)
(* it is as any other key.                                                 *)
(***************************************************************************)
Thm_C13 ==
    \A i \in Handled :
      /\ hist[i].watch =>
            hist[i].map[<<"event">>] = DebugEvent([path |-> hist[i].path, kind |-> "Any"])
      /\ \A j \in AuxRead(i) :
           /\ \A n \in 1..Len(procs[j].read) :
                 HasColon(procs[j].read[n]) =>
                    LineKey(procs[j].read[n]) \in DOMAIN hist[i].map
           /\ \A k \in DOMAIN hist[i].map :
                 \/ hist[i].watch /\ k = <<"event">>
                 \/ AsEnriched(i, procs[j].read, k) /\ AsBuiltin(i, procs[j].read, k)
           /\ (LinesFor(procs[j].read, <<"color">>) # {}
                 /\ procs[j].read[LastLineFor(procs[j].read, <<"color">>)]
                       = <<"color", ":", " ", "blue">>) =>
                 hist[i].map[<<"color">>] = <<"blue">>

Wit_C13 ==
    \E i \in Handled : \E j \in AuxRead(i) :
      /\ hist[i].watch
      /\ Cardinality(LinesFor(procs[j].read, <<"color">>)) = 2
      /\ hist[i].map[<<"color">>] = <<"blue">>
      /\ hist[i].map[<<"name">>] = <<"zz", ":", "y">>
      /\ hist[i].map[<<"event">>] # <<"mine">>
      /\ hist[i].cmd # <<>>

\* the shells started for event number i, of either kind
ProcsFor(i) == {j \in 1..Len(procs) : procs[j].ev = i}

(***************************************************************************)
(* C14 as stated: when a command is given on the command line the rule     *)
(* table is bypassed entirely.  No rule of the configuration has a part in *)
(* the handling of an event: the table main looks rules up in is empty,    *)
(* and a variables-command is spawned only when the command line gives     *)
(* one, never one configured as extra_variables.                           *)
(***************************************************************************)
Orig_C14 ==
    (args.command # <<>> /\ pc # "start") =>
       \A j \in 1..Len(procs) :
          (procs[j].kind = "aux") => IsSome(args.variables_command)

(***************************************************************************)
(* C15 as stated: within the handling of one event the ignore filter comes *)
(* before any side effect.  For an event whose path matches an ignore      *)
(* pattern nothing observable happens: no message, no printed command, and *)
(* no process of any kind is spawned on behalf of the event.               *)
(***************************************************************************)
Orig_C15 ==
    \A i \in 1..Len(hist) :
       Ignored(hist[i].path) => (Silent(i) /\ ProcsFor(i) = {})

(***************************************************************************)
(* C16: the delay before a command is run.  A command is dispatched at the *)
(* time its event is handled; its shell is started only by the thread or   *)
(* by main that has been waiting for it, and never earlier than `delay`    *)
(* after the dispatch, in sync and in async mode.  In async mode the delay *)
(* is spent on the spawned thread: main never sleeps and may handle the    *)
(* next event before the delay is over.  In sync mode main spends it: as   *)
(* long as the delay is not over main handles no event and prints nothing. *)
(***************************************************************************)
Thm_C16 ==
    /\ [][(Len(hist') > Len(hist)) =>
             /\ \A t \in threads' \ threads :
                   t.ev = Len(hist') /\ t.t0 = now /\ t.st = "sleep"
             /\ (sync' # sync) =>
                   (pc' = "sleep" /\ Unwrap(sync').ev = Len(hist') /\ Unwrap(sync').t0 = now)]_vars
    /\ [][(Len(procs') > Len(procs) /\ procs'[Len(procs')].kind = "cmd") =>
             \/ \E t \in threads :
                   /\ t.ev = procs'[Len(procs')].ev /\ t.st = "sleep"
                   /\ now >= t.t0 + args.delay
             \/ /\ pc = "sleep" /\ IsSome(sync)
                /\ Unwrap(sync).ev = procs'[Len(procs')].ev
                /\ now >= Unwrap(sync).t0 + args.delay]_vars
    /\ [](args.async => pc \notin {"sleep", "run"})
    /\ [][(pc = "sleep" /\ now < Unwrap(sync).t0 + args.delay) =>
             (pc' = "sleep" /\ sync' = sync /\ hist' = hist /\ cur' = cur
                /\ out' = out /\ procs' = procs)]_vars

Wit_C16 ==
    /\ args.async /\ args.delay > 0
    /\ \E t \in threads :
         /\ t.st = "sleep" /\ now < t.t0 + args.delay
         /\ Len(hist) > t.ev
         /\ \E t2 \in threads : t2.ev > t.ev /\ t2.st = "sleep" /\ t2.t0 = t.t0

(***************************************************************************)
(* C17: main handles the events in arrival order, one at a time.  Batches  *)
(* leave the channel in the order they entered it and the events of a      *)
(* batch are visited in the batch's order; each pass handles the event at  *)
(* the head, and starts only when main is at the head of its loop with no  *)
(* command of an earlier event left to wait for.  In sync mode the shells  *)
(* are therefore started in the order of their events, each before the     *)
(* next event is handled; in both modes the lines printed for event k come *)
(* before those of event k+1.                                              *)
(***************************************************************************)
Thm_C17 ==
    /\ [][(rx' # rx) =>
             \/ rx # <<>> /\ rx' = Tail(rx) /\ cur = <<>> /\ pc = "idle"
                  /\ cur' = Head(rx).events
             \/ Len(rx') = Len(rx) + 1 /\ SubSeq(rx', 1, Len(rx)) = rx /\ cur' = cur]_vars
    /\ [][(cur' # cur) =>
             \/ cur = <<>> /\ rx # <<>> /\ cur' = Head(rx).events /\ hist' = hist
             \/ cur # <<>> /\ cur' = Tail(cur)]_vars
    /\ [][(hist' # hist) =>
             /\ Len(hist') = Len(hist) + 1 /\ SubSeq(hist', 1, Len(hist)) = hist
             /\ pc = "idle" /\ sync = None
             /\ (~args.async) => (\A j \in 1..Len(procs) : procs[j].ev <= Len(hist))
             /\ (~args.async) =>
                   \A k \in 1..Len(hist) :
                      (OutFor(k, "Run") # {} /\ ~args.render_only) => CmdProcs(k) # {}
             /\ (mode = "watch") =>
                   /\ cur # <<>> /\ Head(cur).kind = "Any"
                   /\ hist'[Len(hist')].path = Head(cur).path
                   /\ cur' = Tail(cur)
             /\ (mode = "trial") =>
                   /\ todo # <<>>
                   /\ hist'[Len(hist')].path = Head(todo)
                   /\ todo' = Tail(todo)]_vars
    /\ [](\A j, j2 \in 1..Len(out) :
            (j < j2 /\ out[j].ev > 0 /\ out[j2].ev > 0) => out[j].ev <= out[j2].ev)
    /\ [](\A j, j2 \in 1..Len(out) :
            (j < j2 /\ out[j].kind = "Changed" /\ out[j2].kind = "Changed") =>
               out[j].ev < out[j2].ev)
    /\ []((~args.async) =>
            \A j, j2 \in 1..Len(procs) : (j < j2) => procs[j].ev <= procs[j2].ev)

Wit_C17 ==
    /\ mode = "watch" /\ ~args.async /\ Len(hist) = 3
    /\ hist[1].path = PathTxt /\ hist[2].path = PathTmp /\ hist[3].path = PathTs
    /\ CmdProcs(1) # {} /\ CmdProcs(2) # {} /\ CmdProcs(3) = {} /\ pc = "sleep"
    /\ \A k \in 1..3 : OutFor(k, "Changed") # {}
    /\ \E j \in ProcsFor(2) : procs[j].kind = "aux"

Orig_C19 ==
    (mode = "trial") =>
       /\ watched = {} /\ rx = <<>> /\ cur = <<>>
       /\ Len(hist) <= Len(args.watch)
       /\ \A i \in 1..Len(hist) : hist[i].path = args.watch[i] /\ ~hist[i].watch
       /\ (~Alive) =>
             /\ Len(hist) = Len(args.watch)
             /\ \A i \in 1..Len(hist) : ~hist[i].panic
             /\ (~args.async) => sync = None

(***************************************************************************)
(* C20: an error batch from the debouncer is only printed.  Taking it off  *)
(* the channel prints one Error line per error and changes nothing else:   *)
(* no event is handled, nothing is run, main stays at the head of its loop *)
(* ready for the next batch, and the loop never ends by returning.  An     *)
(* event of a kind other than Any is skipped: no message, no command.      *)
(***************************************************************************)
Thm_C20 ==
    /\ [][(rx # <<>> /\ rx' = Tail(rx) /\ ~Head(rx).ok) =>
             /\ pc = "idle" /\ pc' = "idle"
             /\ hist' = hist /\ procs' = procs /\ threads' = threads /\ sync' = sync
             /\ cur' = cur /\ d' = d /\ conf_map' = conf_map /\ mode' = mode
             /\ Len(out') = Len(out) + Len(Head(rx).errors)
             /\ SubSeq(out', 1, Len(out)) = out
             /\ \A j \in (Len(out) + 1)..Len(out') :
                   out'[j].kind = "Error" /\ out'[j].text = Head(rx).errors[j - Len(out)]]_vars
    /\ [][(cur # <<>> /\ cur' = Tail(cur) /\ Head(cur).kind # "Any") =>
             /\ pc' = pc /\ hist' = hist /\ out' = out /\ procs' = procs
             /\ threads' = threads /\ sync' = sync /\ rx' = rx]_vars
    /\ [][(mode = "watch" /\ pc # "start") => (pc' # "done")]_vars

Wit_C20 ==
    /\ mode = "watch" /\ Len(hist) = 1 /\ pc = "run"
    /\ \E j, j2 \in 1..Len(out) :
         /\ j < j2
         /\ out[j].kind = "Error" /\ out[j].text = <<"watch error">>
         /\ out[j2].kind = "Changed" /\ out[j2].ev = 1

=============================================================================
